---- MODULE Spec2Model ----
(***************************************************************************)
(* PgDBConnection / PgDBFactory (src/src/PgDBFactory.ts): a thin adapter   *)
(* over a pg.Pool.  The adapter keeps one field, #client; every other      *)
(* piece of state lives in the pool (which client is leased, which idle)   *)
(* and in the PostgreSQL session behind each client (transaction block,    *)
(* uncommitted rows).  Those two collaborators are modelled by the         *)
(* operators Pool... and Store...; the adapter's methods are the actions.  *)
(***************************************************************************)
EXTENDS Naturals, Sequences, FiniteSets

\* ------------------------------------------------------------- bounds
MaxAdapters == 3      \* adapters createDBConnection() may hand out
PoolMax     == 2      \* the pool's configured `max`
MaxRows     == 2      \* data statements that succeed (each writes a fresh row)
MaxClose    == 2      \* close() calls per adapter
MaxCalls    == 8      \* calls in one behaviour
MaxCols     == 2      \* columns of a statement's result
MaxCount    == 2      \* affected-row count the store reports

Adapters == 1..MaxAdapters
Conns    == 1..PoolMax
Rows     == 1..MaxRows

NoErr == "none"

VARIABLES
    created,      \* number of adapters constructed so far (ids 1..created)
    client,       \* client[a]: PgDBConnection.#client (0: a not constructed)
    total,        \* physical connections the pool has established
    idle,         \* the pool's idle list (a stack: release pushes, connect pops)
    depth,        \* depth[c]: nesting of the transaction block of session c
    aborted,      \* aborted[c]: the block is in the failed state
    pending,      \* pending[c]: rows written in the open block, not committed
    committed,    \* rows visible in the store
    nextRow,      \* rows written so far
    closeCalls,   \* closeCalls[a]: how often close() was called on a
    run,          \* run[a]: a's progress through begin -> statements -> end:
                  \*   "begun" after a successful beginTransaction() and while
                  \*   every statement since succeeded, "committed" right after
                  \*   the commit() that ends such a sequence, "failed" once an
                  \*   operation failed after begin, until a calls
                  \*   beginTransaction(), commit() or rollback() with success
    rolledBack,   \* rows of sequences begin -> statement(s) -> rollback()
    last,         \* the call that produced this state
    calls,        \* calls made so far
    result,       \* the driver's Result a method is looking at
    returned      \* what the method made of it

vars == <<created, client, total, idle, depth, aborted, pending, committed,
          nextRow, closeCalls, run, rolledBack, last, calls, result, returned>>

\* ------------------------------------------------- the store (PostgreSQL)
\* What a session answers to a statement.  A data statement or BEGIN inside
\* a failed block is rejected (25P02); a data statement may violate a
\* constraint (23505); any statement may fail at the client without having
\* been run (QueryTimeout: pg's query_timeout drops a statement still queued
\* behind a running one).  COMMIT and ROLLBACK are accepted by the store in
\* every state of the block.  "BEGIN; SAVEPOINT s" is a BEGIN followed by a
\* savepoint, which nests.
StoreOutcomes(sql, c) ==
    LET timeout == {"QueryTimeout"} IN
    CASE sql \in {"BEGIN", "BEGIN; SAVEPOINT s", "SELECT", "DML"} /\ aborted[c]
           -> {"25P02"} \cup timeout
      [] sql = "DML" -> {NoErr, "23505"} \cup timeout
      [] OTHER -> {NoErr} \cup timeout

\* The session and the store after statement sql on connection c ended with
\* outcome e; r is the row a data statement writes.
StoreExec(sql, c, e, r) ==
    LET same == [depth |-> depth[c], aborted |-> aborted[c],
                 pending |-> pending[c], committed |-> committed]
        ended == [same EXCEPT !.depth = 0, !.aborted = FALSE, !.pending = {}]
    IN  CASE e = "QueryTimeout" -> same
          [] e # NoErr -> [same EXCEPT !.aborted = (depth[c] > 0)]
          [] sql = "BEGIN" -> [same EXCEPT !.depth = IF depth[c] = 0 THEN 1 ELSE depth[c]]
          [] sql = "BEGIN; SAVEPOINT s" ->
               [same EXCEPT !.depth = (IF depth[c] = 0 THEN 1 ELSE depth[c]) + 1]
          [] sql = "COMMIT" ->
               IF aborted[c] THEN ended
               ELSE [ended EXCEPT !.committed = committed \cup pending[c]]
          [] sql = "ROLLBACK" -> ended
          [] sql = "DML" ->
               IF depth[c] = 0 THEN [same EXCEPT !.committed = committed \cup {r}]
               ELSE [same EXCEPT !.pending = pending[c] \cup {r}]
          [] OTHER -> same

\* ------------------------------------------------------ the pool (pg.Pool)
\* client.release(): the lease now on the client is given back; a client
\* that is already idle makes release() throw.
PoolReleaseThrows(c) == \E i \in 1..Len(idle) : idle[i] = c

PoolRelease(c) == IF PoolReleaseThrows(c) THEN idle ELSE Append(idle, c)

\* ------------------------------------------------------- the adapter's code
\* The statements the transaction methods send.
BeginSQL_Savepoint == "BEGIN; SAVEPOINT s"

BeginSQL == "BEGIN"

CommitSQL == "COMMIT"

RollbackSQL == "ROLLBACK"

\* rollback(): try { query } catch (e) { logger.error(...) }
RollbackThrown_Rethrow(e) == e

RollbackThrown(e) == NoErr

RollbackLogged(e) == e # NoErr

\* Every other method awaits the query with no handler around it.
StatementThrown_Wrapped(e) == IF e = NoErr THEN NoErr ELSE "DBError"

StatementThrown(e) == e

\* The factory's 'connect' listener: async (client) => { await
\* postConnection(client) }.  The pool emits the event and drops the promise
\* the listener returns, so pool.connect() resolves whatever the hook does.
PostConnectionOutcomes == {NoErr, "HookError"}

PostConnectionThrown(h) == NoErr

\* close(): this.#client.release()
CloseIdle_NoRelease(c) == idle

CloseIdle(c) == PoolRelease(c)

\* A call as its caller and the client saw it: the statements it sent, the
\* error raised beneath it (the store's answer to its statement, or the
\* failure of the post-acquire hook it set off), what the caller got, whether the logger got an error,
\* whether it put a client back on the idle list, and whether a transaction
\* block was open on the adapter's connection when it started.
Call(op, a, sent, storeErr, thrown, logged, released, txnBefore) ==
    [op |-> op, a |-> a, sent |-> sent, storeErr |-> storeErr, thrown |-> thrown,
     logged |-> logged, released |-> released, txnBefore |-> txnBefore]

NoRun == [state |-> "idle", rows |-> {}]

\* ---------------------------------------------------- results and rows
\* A column name is a sequence of characters.  The names tried: id, Id,
\* u_n (snake case), a.b, a.c and A.b (dotted paths, one of them in upper
\* case).
ColumnNames ==
    { <<"i", "d">>, <<"I", "d">>, <<"u", "_", "n">>,
      <<"a", ".", "b">>, <<"a", ".", "c">>, <<"A", ".", "b">> }

CasePairs == { <<"A", "a">>, <<"I", "i">>, <<"N", "n">>, <<"B", "b">>,
               <<"C", "c">>, <<"D", "d">>, <<"U", "u">> }

\* String.prototype.toLowerCase / toUpperCase on one character.
LowerChar(ch) ==
    IF \E p \in CasePairs : p[1] = ch
    THEN (CHOOSE p \in CasePairs : p[1] = ch)[2] ELSE ch

UpperChar(ch) ==
    IF \E p \in CasePairs : p[2] = ch
    THEN (CHOOSE p \in CasePairs : p[2] = ch)[1] ELSE ch

toLowerCase(name) == [i \in 1..Len(name) |-> LowerChar(name[i])]

\* DBConnection.toCamel (base class): each underscore is dropped and the
\* character after it is put in upper case.
RECURSIVE toCamel(_)
toCamel(name) ==
    IF name = <<>> THEN <<>>
    ELSE IF name[1] = "_" /\ Len(name) >= 2
         THEN <<UpperChar(name[2])>> \o toCamel(SubSeq(name, 3, Len(name)))
         ELSE <<name[1]>> \o toCamel(Tail(name))

\* A name read as a dotted path: the sequence of its segments.
RECURSIVE SplitDots(_)
SplitDots(name) ==
    IF \A i \in 1..Len(name) : name[i] # "." THEN <<name>>
    ELSE LET k == CHOOSE i \in 1..Len(name) :
                      name[i] = "." /\ \A j \in 1..(i - 1) : name[j] # "."
         IN  <<SubSeq(name, 1, k - 1)>> \o SplitDots(SubSeq(name, k + 1, Len(name)))

\* An object is a function from paths to values.  DBConnection.setNestObj
\* (base class): the value is stored under the name read as a dotted path.
setNestObj(ds, name, value) ==
    LET path == SplitDots(name) IN
    [p \in (DOMAIN ds) \cup {path} |-> IF p = path THEN value ELSE ds[p]]

EmptyObj == [p \in {} |-> 0]

\* JavaScript values a method returns, each with its kind.
Null == [kind |-> "null", value |-> 0]

Object(ds) == [kind |-> "object", value |-> ds]

Number(n) == [kind |-> "number", value |-> n]

Array(list) == [kind |-> "array", value |-> list]

\* The driver's row objects: row i holds, under each column name, a value of
\* its own.
Cell(i, name) == <<i, name>>

FieldLists == UNION { [1..n -> ColumnNames] : n \in 0..MaxCols }

\* The Results of the driver: ordered column descriptors, the number of rows
\* (each addressable by column name, see Cell) and the affected-row count.
\* present: the result is an object (not null); hasFields: it has a fields
\* property.  A statement returns the rows it affected (RETURNING, SELECT) or
\* none.
Results ==
    { res \in [present : {TRUE}, hasFields : {TRUE}, fields : FieldLists,
               rows : 0..MaxCount, rowCount : 0..MaxCount] :
        res.rows \in {0, res.rowCount} }

\* What getFields may be handed besides: no result, or one without metadata.
NoResult ==
    [present |-> FALSE, hasFields |-> FALSE, fields |-> <<>>, rows |-> 0, rowCount |-> 0]

BareResults ==
    [present : {TRUE}, hasFields : {FALSE}, fields : {<<>>},
     rows : {0}, rowCount : 0..MaxCount]

\* getFirstRow(result)
RECURSIVE FirstRowFrom(_, _, _)
FirstRowFrom(fields, row, ds) ==
    IF fields = <<>> THEN ds
    ELSE FirstRowFrom(Tail(fields), row,
                      setNestObj(ds, toLowerCase(fields[1]), Cell(row, fields[1])))

getFirstRow_LastRow(res) ==
    IF res.rows > 0 THEN Object(FirstRowFrom(res.fields, res.rows, EmptyObj)) ELSE Null

getFirstRow(res) ==
    IF res.rows > 0 THEN Object(FirstRowFrom(res.fields, 1, EmptyObj)) ELSE Null

\* executeUpdate: return result.rowCount
executeUpdateReturn_Rows(res) == Number(res.rows)

executeUpdateReturn(res) == Number(res.rowCount)

\* deleteRecord: return this.executeUpdate(sql, params)
deleteRecordReturn(res) == executeUpdateReturn(res)

\* getFieldType(_field)
getFieldType(field) == "Text"

\* getFields(result)
getFields_RawNames(res) ==
    IF res.present /\ res.hasFields
    THEN Array([i \in 1..Len(res.fields) |->
                  [name |-> res.fields[i], type |-> getFieldType(res.fields[i])]])
    ELSE Array(<<>>)

getFields(res) ==
    IF res.present /\ res.hasFields
    THEN Array([i \in 1..Len(res.fields) |->
                  [name |-> toCamel(res.fields[i]), type |-> getFieldType(res.fields[i])]])
    ELSE Array(<<>>)

NoReturn == [op |-> "none", ret |-> Null]

\* The factory right after construction: a pool with no client connected.
Fresh ==
    /\ created = 0
    /\ client = [a \in Adapters |-> 0]
    /\ total = 0
    /\ idle = <<>>
    /\ depth = [c \in Conns |-> 0]
    /\ aborted = [c \in Conns |-> FALSE]
    /\ pending = [c \in Conns |-> {}]
    /\ committed = {}
    /\ nextRow = 0
    /\ closeCalls = [a \in Adapters |-> 0]
    /\ run = [a \in Adapters |-> NoRun]
    /\ rolledBack = {}
    /\ last = Call("init", 0, 0, NoErr, NoErr, FALSE, FALSE, FALSE)
    /\ calls = 0

Init ==
    /\ Fresh
    /\ result = NoResult
    /\ returned = NoReturn

\* The store's part of a call: statement sql reaches connection c and ends e.
Send(sql, c, e, r) ==
    LET st == StoreExec(sql, c, e, r) IN
    /\ depth' = [depth EXCEPT ![c] = st.depth]
    /\ aborted' = [aborted EXCEPT ![c] = st.aborted]
    /\ pending' = [pending EXCEPT ![c] = st.pending]
    /\ committed' = st.committed
    /\ nextRow' = IF sql = "DML" /\ e = NoErr THEN r ELSE nextRow

\* What the caller's sequence begin -> statements -> commit/rollback has come
\* to after a call of a that sent one statement which ended e.
RunAfter(op, a, e, r) ==
    LET st == run[a].state
        failed == [state |-> "failed", rows |-> {}]
    IN  CASE op = "rollback" -> NoRun
          [] e # NoErr -> IF st \in {"begun", "failed"} THEN failed ELSE NoRun
          [] op = "beginTransaction" -> [state |-> "begun", rows |-> {}]
          [] op = "commit" ->
               IF st = "begun" THEN [run[a] EXCEPT !.state = "committed"] ELSE NoRun
          [] st = "failed" -> failed
          [] st # "begun" -> NoRun
          [] op = "fetchData" -> run[a]
          [] OTHER -> [run[a] EXCEPT !.rows = @ \cup {r}]

\* A method that sends one statement over this.#client and hands the
\* driver's answer on: thrown is what the caller gets for store outcome e.
Query(op, a, sql, e, thrown) ==
    LET c == client[a]
        r == nextRow + 1
    IN  /\ Send(sql, c, e, r)
        /\ last' = Call(op, a, 1, e, thrown, op = "rollback" /\ RollbackLogged(e),
                        FALSE, depth[c] > 0)
        /\ run' = [run EXCEPT ![a] = RunAfter(op, a, e, r)]
        /\ rolledBack' = IF op = "rollback" /\ run[a].state = "begun"
                         THEN rolledBack \cup run[a].rows ELSE rolledBack
        /\ UNCHANGED <<created, client, total, idle, closeCalls>>

Live == 1..created

\* One more call is made on an adapter or on the factory.
Tick ==
    /\ calls < MaxCalls
    /\ calls' = calls + 1
    /\ UNCHANGED <<result, returned>>

beginTransaction(a) ==
    /\ Tick
    /\ \E e \in StoreOutcomes(BeginSQL, client[a]) :
         Query("beginTransaction", a, BeginSQL, e, StatementThrown(e))

commit(a) ==
    /\ Tick
    /\ \E e \in StoreOutcomes(CommitSQL, client[a]) :
         Query("commit", a, CommitSQL, e, StatementThrown(e))

rollback(a) ==
    /\ Tick
    /\ \E e \in StoreOutcomes(RollbackSQL, client[a]) :
         Query("rollback", a, RollbackSQL, e, RollbackThrown(e))

fetchData(a) ==
    /\ Tick
    /\ \E e \in StoreOutcomes("SELECT", client[a]) :
         Query("fetchData", a, "SELECT", e, StatementThrown(e))

executeUpdate(a) ==
    /\ Tick
    /\ nextRow < MaxRows
    /\ \E e \in StoreOutcomes("DML", client[a]) :
        Query("executeUpdate", a, "DML", e, StatementThrown(e))

\* deleteRecord(sql, params) { return this.executeUpdate(sql, params) }
deleteRecord(a) == executeUpdate(a)

insertRecord(a) ==
    /\ Tick
    /\ nextRow < MaxRows
    /\ \E e \in StoreOutcomes("DML", client[a]) :
        Query("insertRecord", a, "DML", e, StatementThrown(e))

updateRecord(a) ==
    /\ Tick
    /\ nextRow < MaxRows
    /\ \E e \in StoreOutcomes("DML", client[a]) :
        Query("updateRecord", a, "DML", e, StatementThrown(e))

close(a) ==
    LET c == client[a]
        throws == PoolReleaseThrows(c)
    IN  /\ Tick
        /\ closeCalls[a] < MaxClose
        /\ idle' = CloseIdle(c)
        /\ closeCalls' = [closeCalls EXCEPT ![a] = @ + 1]
        /\ run' = [run EXCEPT ![a] = IF @.state = "failed" THEN @ ELSE NoRun]
        /\ last' = Call("close", a, 0, NoErr,
                        IF throws THEN "DoubleRelease" ELSE NoErr, FALSE,
                        idle' # idle, depth[c] > 0)
        /\ UNCHANGED <<created, client, total, depth, aborted, pending, committed,
                       nextRow, rolledBack>>

\* pool.connect(): the client released last if one is idle, else a new
\* physical connection while fewer than max exist, else the caller waits.
\* A new connection sets off the post-acquire hook, which may fail.
PoolCanConnect == idle # <<>> \/ total < PoolMax

PoolConnectClient == IF idle # <<>> THEN idle[Len(idle)] ELSE total + 1

createDBConnection ==
    /\ Tick
    /\ created < MaxAdapters
    /\ PoolCanConnect
    /\ \E h \in IF idle # <<>> THEN {NoErr} ELSE PostConnectionOutcomes :
       LET c == PoolConnectClient
           a == created + 1
       IN  /\ created' = a
           /\ client' = [client EXCEPT ![a] = c]
           /\ total' = IF idle # <<>> THEN total ELSE total + 1
           /\ idle' = IF idle # <<>> THEN SubSeq(idle, 1, Len(idle) - 1) ELSE idle
           /\ last' = Call("createDBConnection", a, 0, h, PostConnectionThrown(h),
                           FALSE, FALSE, depth[c] > 0)
    /\ UNCHANGED <<depth, aborted, pending, committed, nextRow, closeCalls,
                   run, rolledBack>>

\* The pool's acquire timeout elapses while every client is leased: the
\* pool's error is what createDBConnection() throws, and no adapter is made.
createDBConnectionTimeout ==
    /\ Tick
    /\ ~PoolCanConnect
    /\ last' = Call("createDBConnection", 0, 0, NoErr, "AcquireTimeout", FALSE, FALSE,
                    FALSE)
    /\ UNCHANGED <<created, client, total, idle, depth, aborted, pending, committed,
                   nextRow, closeCalls, run, rolledBack>>

Next ==
    \/ createDBConnection
    \/ createDBConnectionTimeout
    \/ \E a \in Live : beginTransaction(a)
    \/ \E a \in Live : commit(a)
    \/ \E a \in Live : rollback(a)
    \/ \E a \in Live : fetchData(a)
    \/ \E a \in Live : executeUpdate(a)
    \/ \E a \in Live : deleteRecord(a)
    \/ \E a \in Live : insertRecord(a)
    \/ \E a \in Live : updateRecord(a)
    \/ \E a \in Live : close(a)

Spec == Init /\ [][Next]_vars

\* ------------------------------------------- what the methods return
\* The adapter's and the pool's state, which looking at a Result leaves alone.
session == <<created, client, total, idle, depth, aborted, pending, committed,
             nextRow, closeCalls, run, rolledBack, last, calls>>

\* insertRecord / updateRecord: return this.getFirstRow(result)
insertRecordReturns ==
    /\ result \in Results
    /\ returned' = [op |-> "insertRecord", ret |-> getFirstRow(result)]
    /\ UNCHANGED <<session, result>>

updateRecordReturns ==
    /\ result \in Results
    /\ returned' = [op |-> "updateRecord", ret |-> getFirstRow(result)]
    /\ UNCHANGED <<session, result>>

executeUpdateReturns ==
    /\ result \in Results
    /\ returned' = [op |-> "executeUpdate", ret |-> executeUpdateReturn(result)]
    /\ UNCHANGED <<session, result>>

deleteRecordReturns ==
    /\ result \in Results
    /\ returned' = [op |-> "deleteRecord", ret |-> deleteRecordReturn(result)]
    /\ UNCHANGED <<session, result>>

getFieldsReturns ==
    /\ returned' = [op |-> "getFields", ret |-> getFields(result)]
    /\ UNCHANGED <<session, result>>

\* A statement has ended with any Result the driver may give, or getFields
\* is handed nothing or a result without metadata.
InitResult ==
    /\ Fresh
    /\ result \in Results \cup BareResults \cup {NoResult}
    /\ returned = NoReturn

NextResult ==
    \/ insertRecordReturns
    \/ updateRecordReturns
    \/ executeUpdateReturns
    \/ deleteRecordReturns
    \/ getFieldsReturns

SpecResult == InitResult /\ [][NextResult]_vars

TypeOK ==
    /\ created \in 0..MaxAdapters
    /\ total \in 0..PoolMax
    /\ \A a \in Live : client[a] \in 1..total
    /\ committed \subseteq Rows

\* ------------------------------------------------------------- the claims
\* The methods that send a statement and hand the store's error on.
Forwarding == {"beginTransaction", "commit", "fetchData", "executeUpdate",
               "insertRecord", "updateRecord", "deleteRecord"}

\* C1: rollback() never raises: whatever the ROLLBACK statement's outcome, the
\* call completes normally, and a failed ROLLBACK is reported to the logger.
C1_RollbackNeverRaises ==
    last.op = "rollback" =>
        /\ last.thrown = NoErr
        /\ last.storeErr # NoErr => last.logged

\* A rollback() of an adapter inside a transaction block whose ROLLBACK
\* statement failed.
C1_Witness ==
    /\ last.op = "rollback"
    /\ last.storeErr # NoErr
    /\ last.txnBefore

\* C2: a row written between beginTransaction() and rollback() on one adapter
\* is not visible once rollback() has returned, and never becomes visible.
C2_RollbackDiscards == rolledBack \cap committed = {}

\* C3: right after the commit() that ends beginTransaction() -> N successful
\* statements -> commit() on one adapter, the N rows are visible and no
\* transaction block is open on the adapter's connection.
C3_CommitRoundTrip ==
    \A a \in Live :
        (last.op = "commit" /\ last.a = a /\ run[a].state = "committed") =>
            /\ run[a].rows \subseteq committed
            /\ depth[client[a]] = 0

\* C4: a call of a statement method on an adapter that was closed fails with
\* an invalid-state error and sends nothing to the client.
C4_ClosedRejects ==
    (last.op \in Forwarding /\ closeCalls[last.a] >= 1) =>
        /\ last.thrown = "InvalidState"
        /\ last.sent = 0

\* C5: a second or later close() of an adapter does not throw and puts no
\* client back into the pool.
C5_CloseIdempotent ==
    (last.op = "close" /\ closeCalls[last.a] >= 2) =>
        /\ last.thrown = NoErr
        /\ ~last.released

\* C6: after a close() that returned, the adapter's client is in the pool and
\* is the one the next createDBConnection() hands out; the pool never holds
\* more than PoolMax physical connections, however many adapters were made.
C6_PoolRelease ==
    /\ total <= PoolMax
    /\ Cardinality({client[a] : a \in Live}) <= PoolMax
    /\ (last.op = "close" /\ last.thrown = NoErr) =>
           /\ PoolCanConnect
           /\ PoolConnectClient = client[last.a]
           /\ PoolConnectClient <= total

\* The pool is at its maximum and createDBConnection() has just handed out one
\* adapter more than there are connections: a released client was reused.
C6_Witness ==
    /\ last.op = "createDBConnection"
    /\ last.a = created
    /\ total = PoolMax
    /\ created > PoolMax

\* C7: no two adapters that were never closed wrap the same client.
C7_ExclusiveOwnership ==
    \A a, b \in Live :
        (a # b /\ closeCalls[a] = 0 /\ closeCalls[b] = 0) => client[a] # client[b]

\* C8: no connection, hence no adapter, ever has more than one transaction
\* open: a BEGIN inside a transaction block does not nest.
C8_OneTransaction == \A a \in Live : depth[client[a]] <= 1

\* beginTransaction() has returned normally on an adapter whose connection was
\* already inside a transaction block.
C8_Witness ==
    /\ last.op = "beginTransaction"
    /\ last.txnBefore
    /\ last.storeErr = NoErr
    /\ depth[client[last.a]] = 1

C10_AutoRollback ==
    (last.op = "close" /\ last.thrown = NoErr /\ run[last.a].state = "failed") =>
        depth[client[last.a]] = 0

ColumnsNamed(low) ==
    {i \in 1..Len(result.fields) : toLowerCase(result.fields[i]) = low}

C14_HookFailurePropagates ==
    (last.op = "createDBConnection" /\ last.storeErr = "HookError") =>
        /\ last.thrown = "HookError"
        /\ last.a = 0

\* C15: rollback() on an adapter whose connection is inside a transaction
\* block leaves no block open, whether ROLLBACK succeeded or failed.
C15_RollbackLeavesIdle ==
    (last.op = "rollback" /\ last.txnBefore) => depth[client[last.a]] = 0

\* C16: the adapter createDBConnection() returns wraps a connection with no
\* transaction block open and no uncommitted row of an earlier adapter.
C16_StartsIdle ==
    (last.op = "createDBConnection" /\ last.a # 0) =>
        /\ depth[client[last.a]] = 0
        /\ pending[client[last.a]] = {}

\* C12: executeUpdate and deleteRecord return the affected-row count the
\* store reported for the statement, a number (zero included), not row data.
C12_AffectedRowCount ==
    returned.op \in {"executeUpdate", "deleteRecord"} =>
        /\ returned.ret.kind = "number"
        /\ returned.ret.value = result.rowCount

\* deleteRecord has returned the count of a statement that affected the most
\* rows and returned none of them.
C12_Witness ==
    /\ returned.op = "deleteRecord"
    /\ result.rowCount = MaxCount
    /\ result.rows = 0
    /\ returned.ret = Number(MaxCount)

\* C13: getFields returns one Field per column descriptor, in order, typed
\* Text, named uN for the column u_n and as the column for a name without
\* underscore; without a result or without field metadata it returns an empty
\* array.
C13_FieldsCamelCase ==
    returned.op = "getFields" =>
        /\ returned.ret.kind = "array"
        /\ IF result.present /\ result.hasFields
           THEN /\ Len(returned.ret.value) = Len(result.fields)
                /\ \A i \in 1..Len(result.fields) :
                       LET name == result.fields[i]
                           field == returned.ret.value[i]
                       IN  /\ field.type = "Text"
                           /\ name = <<"u", "_", "n">> => field.name = <<"u", "N">>
                           /\ (\A k \in 1..Len(name) : name[k] # "_") => field.name = name
           ELSE returned.ret.value = <<>>

\* getFields has projected a snake-case column after a mixed-case one.
C13_Witness ==
    /\ returned.op = "getFields"
    /\ result.present
    /\ result.fields = << <<"I", "d">>, <<"u", "_", "n">> >>
    /\ returned.ret.value[2].name = <<"u", "N">>

====
